---- MODULE Spec2Model ----
(***************************************************************************)
(* Model of the Ren'Py script reader (RenpyReader).  A line is a sequence  *)
(* of one-character strings; line numbers are 0-based as in the source,    *)
(* so line number k is lines[k + 1].                                       *)
(***************************************************************************)
EXTENDS Integers, Sequences, FiniteSets, TLC

\* the reader: the lines, the cursor, the entries and items produced, the
\* position in on_read_source; for each entry the line that triggered it,
\* the cursor values the loop body ran on, the lines the last step read
VARIABLES lines, i, entries, items, pc, triggers, visited, reads

\* one call of _extract_quoted_robust or _find_next_relevant_line
VARIABLES line, start, result

\* the request limiter: its fields, the holder of its lock, time.time(),
\* each thread's call in progress, the times of the granted requests
VARIABLES limiter, lock, clock, calls, granted

\* cache items: their fields, the holder of each item's lock, each thread's
\* call in progress, the value last set in each field, the shared token cache
VARIABLES fields, locks, workers, committed, token_cache

readerVars == <<lines, i, entries, items, triggers, visited, reads>>

callVars == <<line, start, result>>

limiterVars == <<limiter, lock, clock, calls, granted>>

cacheVars == <<fields, locks, workers, committed, token_cache>>

vars == <<readerVars, pc, callVars, limiterVars, cacheVars>>

\* ---------------------------------------------------------------- bounds
MaxLines == 4
MaxFairLines == 2
MaxLen == 5

\* the limiter: threads, clock ticks after construction, bucket capacity,
\* longest request interval in seconds
NumThreads == 2
MaxTicks == 2
MaxTokens == 2
MaxInterval == 2

\* the cache items: items, threads, largest field value
NumItems == 2
NumWorkers == 2
MaxValue == 1

\* the 60 of TPM / 60 and 60 / RPM
SecondsPerMinute == 60

\* ------------------------------------------------------ character classes
Quote == "\""
Whitespace == {" ", "\t"}
Letter == {"a", "b", "c", "d", "e", "f", "g", "h", "i", "j", "k", "l", "m", "n", "o", "p", "q", "r", "s", "t", "u", "v", "w", "x", "y", "z", "A", "B", "C", "D", "E", "F", "G", "H", "I", "J", "K", "L", "M", "N", "O", "P", "Q", "R", "S", "T", "U", "V", "W", "X", "Y", "Z"}
Digit == {"0", "1", "2", "3", "4", "5", "6", "7", "8", "9"}
WordChar == Letter \cup Digit \cup {"_"}
TagChar == WordChar \cup Whitespace \cup {"@"}

\* Optional[...] values
None == [some |-> FALSE]
Some(v) == [some |-> TRUE, val |-> v]

\* the literal prefixes the reader tests for
TranslatePrefix == <<"t", "r", "a", "n", "s", "l", "a", "t", "e", " ">>
OldPrefix == <<"o", "l", "d", " ">>
NewPrefix == <<"n", "e", "w", " ">>
GamePrefix == <<"g", "a", "m", "e", "/">>
RenpyPrefix == <<"r", "e", "n", "p", "y", "/">>

\* ------------------------------------------------------- string helpers
RECURSIVE lstrip(_)
lstrip(s) == IF s # <<>> /\ Head(s) \in Whitespace THEN lstrip(Tail(s)) ELSE s

RECURSIVE rstrip(_)
rstrip(s) == IF s # <<>> /\ s[Len(s)] \in Whitespace THEN rstrip(SubSeq(s, 1, Len(s) - 1)) ELSE s

strip(s) == rstrip(lstrip(s))

startswith(s, p) == Len(s) >= Len(p) /\ SubSeq(s, 1, Len(p)) = p

\* str.find / str.rfind: 0-based position of the first / last c, or -1
RECURSIVE findFrom(_, _, _)
findFrom(s, c, k) == IF k >= Len(s) THEN -1 ELSE IF s[k + 1] = c THEN k ELSE findFrom(s, c, k + 1)

find(s, c) == findFrom(s, c, 0)

RECURSIVE rfindFrom(_, _, _)
rfindFrom(s, c, k) == IF k < 0 THEN -1 ELSE IF s[k + 1] = c THEN k ELSE rfindFrom(s, c, k - 1)

rfind(s, c) == rfindFrom(s, c, Len(s) - 1)

\* Python slice s[a:b] for 0 <= a, b <= len(s)
slice(s, a, b) == SubSeq(s, a + 1, b)

\* line.split('#', 1)[-1]
afterHash(s) == IF find(s, "#") = -1 THEN s ELSE slice(s, find(s, "#") + 1, Len(s))

AllIn(s, a, b, C) == \A k \in a..b : s[k] \in C

\* ------------------------------------------------------------- patterns
\* ^\s*([a-zA-Z][\w\s@]*)\s+\"   a = length taken by \s*, g = last position
\* of group 1, q = position of the quote (1-based positions)
TagMatches(s) == UNION {UNION {{<<a, g, q>> : q \in {q \in (g + 2)..Len(s) : s[q] = Quote /\ AllIn(s, g + 1, q - 1, Whitespace)}} : g \in {g \in (a + 1)..Len(s) : AllIn(s, a + 2, g, TagChar)}} : a \in {a \in 0..(Len(s) - 1) : AllIn(s, 1, a, Whitespace) /\ s[a + 1] \in Letter}}

\* greedy quantifiers: the longest \s*, then the longest group 1
GreedyBefore(m, n) == m[1] > n[1] \/ (m[1] = n[1] /\ m[2] >= n[2])

TAG_PATTERN(s) == IF TagMatches(s) = {} THEN None ELSE LET m == CHOOSE m \in TagMatches(s) : \A n \in TagMatches(s) : GreedyBefore(m, n) IN Some(SubSeq(s, m[1] + 1, m[2]))

\* ^\s*#\s*
COMMENT_TRANSLATION_START_PATTERN(s) == \E a \in 0..Len(s) : AllIn(s, 1, a, Whitespace) /\ a + 1 <= Len(s) /\ s[a + 1] = "#"

\* ^\s*(?:[a-zA-Z][\w\s@]*\s+)?\"
CODE_TRANSLATION_START_PATTERN(s) == \/ \E a \in 0..Len(s) : AllIn(s, 1, a, Whitespace) /\ a + 1 <= Len(s) /\ s[a + 1] = Quote
                                     \/ TagMatches(s) # {}

\* ------------------------------------- the tests made on a stripped line
isOldLine(s) == startswith(strip(s), OldPrefix)
isNewLine(s) == startswith(strip(s), NewPrefix)
isBlockBoundary(s) == startswith(strip(s), TranslatePrefix)
isCommentLine(s) == COMMENT_TRANSLATION_START_PATTERN(strip(s))
isCodeCandidate(s) == CODE_TRANSLATION_START_PATTERN(strip(s))

\* ------------------------------------------------ _extract_quoted_robust
\* variant: the span ends at the second quote instead of the last one
ExtractToSecondQuote(s) == LET first_quote_index == find(s, Quote)
                               last_quote_index == findFrom(s, Quote, first_quote_index + 1)
                           IN IF first_quote_index = -1 THEN None
                              ELSE IF last_quote_index = -1 THEN None
                              ELSE Some(slice(s, first_quote_index + 1, last_quote_index))

_extract_quoted_robust(s) == LET first_quote_index == find(s, Quote)
                                    last_quote_index == rfind(s, Quote)
                                IN IF first_quote_index = -1 THEN None
                                   ELSE IF last_quote_index = first_quote_index THEN None
                                   ELSE Some(slice(s, first_quote_index + 1, last_quote_index))

\* ---------------------------------------------- _find_next_relevant_line
\* variant: the code-line test is made before the 'translate ' test
RECURSIVE FindCodeBeforeBoundary(_, _)
FindCodeBeforeBoundary(ls, start_index) == IF start_index >= Len(ls) THEN None
                                           ELSE IF isCodeCandidate(ls[start_index + 1]) THEN Some([num |-> start_index, line |-> ls[start_index + 1]])
                                           ELSE IF isBlockBoundary(ls[start_index + 1]) THEN None
                                           ELSE FindCodeBeforeBoundary(ls, start_index + 1)

RECURSIVE _find_next_relevant_line(_, _)
_find_next_relevant_line(ls, start_index) == IF start_index >= Len(ls) THEN None
                                             ELSE IF isBlockBoundary(ls[start_index + 1]) THEN None
                                             ELSE IF isCodeCandidate(ls[start_index + 1]) THEN Some([num |-> start_index, line |-> ls[start_index + 1]])
                                             ELSE _find_next_relevant_line(ls, start_index + 1)

\* ---------------------------------------------------------------- input
\* 'old "A"'
L_old == <<"o", "l", "d", " ", "\"", "A", "\"">>
\* ' new "B"'
L_new == <<" ", "n", "e", "w", " ", "\"", "B", "\"">>
\* ' # e "C"'
L_ctag == <<" ", "#", " ", "e", " ", "\"", "C", "\"">>
\* ' e "D"'
L_tag == <<" ", "e", " ", "\"", "D", "\"">>
\* '# "E"'
L_cplain == <<"#", " ", "\"", "E", "\"">>
\* '"F"G"'
L_plain == <<"\"", "F", "\"", "G", "\"">>
\* 'voice "v"'
L_voice == <<"v", "o", "i", "c", "e", " ", "\"", "v", "\"">>
\* 'translate x:'
L_translate == <<"t", "r", "a", "n", "s", "l", "a", "t", "e", " ", "x", ":">>
\* '# game/x "H"'
L_cgame == <<"#", " ", "g", "a", "m", "e", "/", "x", " ", "\"", "H", "\"">>
\* ''
L_blank == <<>>
\* '# old "I"'
L_cold == <<"#", " ", "o", "l", "d", " ", "\"", "I", "\"">>
\* 'old "J'
L_oldlone == <<"o", "l", "d", " ", "\"", "J">>
\* '#  renpy/x "K"'
L_crenpy == <<"#", " ", " ", "r", "e", "n", "p", "y", "/", "x", " ", "\"", "K", "\"">>

LineSet == {L_old, L_new, L_ctag, L_tag, L_cplain, L_plain, L_voice, L_translate, L_cgame, L_blank, L_cold, L_oldlone, L_crenpy}

\* 'translate "x"': a block boundary that also has the shape of a code line
L_transcode == <<"t", "r", "a", "n", "s", "l", "a", "t", "e", " ", "\"", "x", "\"">>

\* the lines given to the lookahead on its own
LookLineSet == {L_tag, L_plain, L_voice, L_translate, L_transcode, L_blank, L_cplain, L_new}

LookFiles == UNION {[1..n -> LookLineSet] : n \in 0..MaxLines}

\* the characters of the lines given to the extractor on its own
Alphabet == {Quote, "a", " "}

Files == UNION {[1..n -> LineSet] : n \in 0..MaxLines}

Strings == UNION {[1..n -> Alphabet] : n \in 0..MaxLen}


\* ------------------------------------------------------- on_read_source
\* the inner search for the 'new' line, from line number j on: whether an
\* entry was found, the line number the search stopped at (len(lines) when
\* it ran off the end) and the extracted translation
RECURSIVE ScanNew(_, _)
ScanNew(ls, j) == IF j >= Len(ls) THEN [found_new |-> FALSE, j |-> j, translated |-> None]
                  ELSE LET next_line == ls[j + 1]
                           translated == _extract_quoted_robust(next_line)
                       IN IF isNewLine(next_line)
                          THEN IF translated.some THEN [found_new |-> TRUE, j |-> j, translated |-> translated]
                               ELSE ScanNew(ls, j + 1)
                          ELSE IF isOldLine(next_line) \/ isCommentLine(next_line) \/ isCodeCandidate(next_line)
                               THEN [found_new |-> FALSE, j |-> j, translated |-> None]
                               ELSE ScanNew(ls, j + 1)

\* variant: a tagged comment is paired with its code line whatever the code line's tag
FormatOfCommentTag(comment_line, code_stripped) == LET potential_source_line == lstrip(afterHash(comment_line))
                                                       comment_tag_match == TAG_PATTERN(afterHash(comment_line))
                                                   IN IF comment_tag_match.some
                                                      THEN [format_type |-> Some("comment_tag"), tag |-> Some(strip(comment_tag_match.val))]
                                                      ELSE IF startswith(potential_source_line, <<Quote>>) /\ startswith(code_stripped, <<Quote>>)
                                                           THEN [format_type |-> Some("comment_no_tag"), tag |-> None]
                                                           ELSE [format_type |-> None, tag |-> None]

\* variant: two tagged lines are paired without comparing their tags
FormatOfAnyTag(comment_line, code_stripped) == LET potential_source_line == lstrip(afterHash(comment_line))
                                                   comment_tag_match == TAG_PATTERN(afterHash(comment_line))
                                                   code_tag_match == TAG_PATTERN(code_stripped)
                                               IN IF comment_tag_match.some /\ code_tag_match.some
                                                  THEN [format_type |-> Some("comment_tag"), tag |-> Some(strip(code_tag_match.val))]
                                                  ELSE IF startswith(potential_source_line, <<Quote>>) /\ startswith(code_stripped, <<Quote>>)
                                                       THEN [format_type |-> Some("comment_no_tag"), tag |-> None]
                                                       ELSE [format_type |-> None, tag |-> None]

\* the format and tag decided for a comment line and the code line found
FormatOf(comment_line, code_stripped) == LET potential_source_line == lstrip(afterHash(comment_line))
                                             comment_tag_match == TAG_PATTERN(afterHash(comment_line))
                                             code_tag_match == TAG_PATTERN(code_stripped)
                                         IN IF comment_tag_match.some /\ code_tag_match.some
                                            THEN IF strip(comment_tag_match.val) = strip(code_tag_match.val)
                                                 THEN [format_type |-> Some("comment_tag"), tag |-> Some(strip(code_tag_match.val))]
                                                 ELSE [format_type |-> None, tag |-> None]
                                            ELSE IF startswith(potential_source_line, <<Quote>>) /\ startswith(code_stripped, <<Quote>>)
                                                 THEN [format_type |-> Some("comment_no_tag"), tag |-> None]
                                                 ELSE [format_type |-> None, tag |-> None]

\* the source text a comment line supplies
CommentSource(comment_line) == LET potential_source_line == lstrip(afterHash(comment_line))
                               IN IF ~(startswith(potential_source_line, GamePrefix) \/ startswith(potential_source_line, RenpyPrefix))
                                  THEN _extract_quoted_robust(comment_line)
                                  ELSE None

\* the entry the comment branch appends for the comment at line number k,
\* given what _find_next_relevant_line returned
CommentEntryFor(ls, k, next_line_info) == LET comment_line == ls[k + 1]
                                          IN IF ~next_line_info.some THEN None
                                             ELSE LET code_line_num == next_line_info.val.num
                                                      code_line == next_line_info.val.line
                                                      comment_source == CommentSource(comment_line)
                                                      code_text == _extract_quoted_robust(code_line)
                                                      f == FormatOf(comment_line, strip(code_line))
                                                  IN IF comment_source.some /\ code_text.some /\ f.format_type.some
                                                     THEN Some([source |-> comment_source.val, translated |-> code_text.val, new_line_num |-> code_line_num, format_type |-> f.format_type.val, tag |-> f.tag])
                                                     ELSE None

\* the entry the comment branch appends for the comment at line number k
\* (the lookahead is made once and its result handed on)
CommentEntry(ls, k) == CHOOSE e \in {CommentEntryFor(ls, k, next_line_info) : next_line_info \in {_find_next_relevant_line(ls, k + 1)}} : TRUE

\* the line numbers the old branch reads at cursor k: line k, and the lines
\* of the inner scan when line k has a span
OldReads(ls, k) == IF _extract_quoted_robust(ls[k + 1]).some
                   THEN {k} \cup {m \in (k + 1)..(Len(ls) - 1) : m <= ScanNew(ls, k + 1).j}
                   ELSE {k}

\* the last line number _find_next_relevant_line examines from start_index on
RECURSIVE LookaheadLast(_, _)
LookaheadLast(ls, start_index) == IF start_index >= Len(ls) THEN start_index - 1
                                  ELSE IF isBlockBoundary(ls[start_index + 1]) \/ isCodeCandidate(ls[start_index + 1]) THEN start_index
                                  ELSE LookaheadLast(ls, start_index + 1)

\* the line numbers the comment branch reads at cursor k
CommentReads(ls, k) == {k} \cup ((k + 1)..LookaheadLast(ls, k + 1))

\* the limiter and the cache items are not in use
LimiterUnused == /\ limiter = [max_tokens |-> 0, remaining_tokens |-> 0, tokens_rate |-> 0, last_time |-> 0, last_request_time |-> 0, request_interval |-> 0]
                 /\ lock = 0
                 /\ clock = 0
                 /\ calls = <<>>
                 /\ granted = <<>>

CacheUnused == /\ fields = <<>>
               /\ locks = <<>>
               /\ workers = <<>>
               /\ committed = <<>>
               /\ token_cache = {}

\* lines 184-196: one cache item per entry
ToItem(entry) == [source_text |-> entry.source, translated_text |-> entry.translated, extra |-> [new_line_num |-> entry.new_line_num, format_type |-> entry.format_type, tag |-> entry.tag]]

Init == /\ lines \in Files
        /\ i = 0
        /\ entries = <<>>
        /\ items = <<>>
        /\ pc = "loop"
        /\ triggers = <<>>
        /\ visited = {}
        /\ reads = {}
        /\ line = <<>>
        /\ start = 0
        /\ result = None
        /\ LimiterUnused
        /\ CacheUnused

\* format 1: the line at the cursor starts with 'old '.  The branch ends with
\* its own i += 1 (line 123) and, having no continue, falls through to the
\* i += 1 that closes the loop body (line 182).
LoopOld == /\ pc = "loop"
           /\ i < Len(lines)
           /\ isOldLine(lines[i + 1])
           /\ \E source \in {_extract_quoted_robust(lines[i + 1])} : \E scan \in {ScanNew(lines, i + 1)} :
                 IF source.some /\ scan.found_new
                 THEN /\ entries' = Append(entries, [source |-> source.val, translated |-> scan.translated.val, new_line_num |-> scan.j, format_type |-> "old_new", tag |-> None])
                      /\ triggers' = Append(triggers, i)
                      /\ i' = (scan.j + 1) + 1
                 ELSE /\ i' = (i + 1) + 1
                      /\ UNCHANGED <<entries, triggers>>
           /\ visited' = visited \cup {i}
           /\ reads' = OldReads(lines, i)
           /\ UNCHANGED <<lines, items, pc, callVars, limiterVars, cacheVars>>

\* variant: the code line found is skipped even when no entry is emitted
LoopCommentSkipsCode == /\ pc = "loop"
                        /\ i < Len(lines)
                        /\ ~isOldLine(lines[i + 1])
                        /\ isCommentLine(lines[i + 1])
                        /\ LET e == CommentEntry(lines, i)
                               next_line_info == _find_next_relevant_line(lines, i + 1)
                           IN /\ IF e.some
                                 THEN entries' = Append(entries, e.val) /\ triggers' = Append(triggers, i)
                                 ELSE UNCHANGED <<entries, triggers>>
                              /\ i' = IF next_line_info.some THEN next_line_info.val.num + 1 ELSE i + 1
                        /\ visited' = visited \cup {i}
                        /\ reads' = CommentReads(lines, i)
                        /\ UNCHANGED <<lines, items, pc, callVars, limiterVars, cacheVars>>

\* variant: after an entry the cursor moves one line on, not past the code line
LoopCommentStaysBeforeCode == /\ pc = "loop"
                              /\ i < Len(lines)
                              /\ ~isOldLine(lines[i + 1])
                              /\ isCommentLine(lines[i + 1])
                              /\ LET e == CommentEntry(lines, i)
                                 IN IF e.some
                                    THEN entries' = Append(entries, e.val) /\ triggers' = Append(triggers, i)
                                    ELSE UNCHANGED <<entries, triggers>>
                              /\ i' = i + 1
                              /\ visited' = visited \cup {i}
                              /\ reads' = CommentReads(lines, i)
                              /\ UNCHANGED <<lines, items, pc, callVars, limiterVars, cacheVars>>

\* formats 2 and 3: the line at the cursor is a comment
LoopComment == /\ pc = "loop"
               /\ i < Len(lines)
               /\ ~isOldLine(lines[i + 1])
               /\ isCommentLine(lines[i + 1])
               /\ \E e \in {CommentEntry(lines, i)} :
                     IF e.some
                     THEN /\ entries' = Append(entries, e.val)
                          /\ triggers' = Append(triggers, i)
                          /\ i' = e.val.new_line_num + 1
                     ELSE /\ i' = i + 1
                          /\ UNCHANGED <<entries, triggers>>
               /\ visited' = visited \cup {i}
               /\ reads' = CommentReads(lines, i)
               /\ UNCHANGED <<lines, items, pc, callVars, limiterVars, cacheVars>>

\* variant: a line of no known shape leaves the cursor where it is
LoopOtherStays == /\ pc = "loop"
                  /\ i < Len(lines)
                  /\ ~isOldLine(lines[i + 1])
                  /\ ~isCommentLine(lines[i + 1])
                  /\ i' = i
                  /\ visited' = visited \cup {i}
                  /\ reads' = {i}
                  /\ UNCHANGED <<lines, entries, items, pc, triggers, callVars, limiterVars, cacheVars>>

\* any other line
LoopOther == /\ pc = "loop"
             /\ i < Len(lines)
             /\ ~isOldLine(lines[i + 1])
             /\ ~isCommentLine(lines[i + 1])
             /\ i' = i + 1
             /\ visited' = visited \cup {i}
             /\ reads' = {i}
             /\ UNCHANGED <<lines, entries, items, pc, triggers, callVars, limiterVars, cacheVars>>

\* the loop ends and the entries become cache items
LoopExit == /\ pc = "loop"
            /\ i >= Len(lines)
            /\ items' = [k \in 1..Len(entries) |-> ToItem(entries[k])]
            /\ pc' = "done"
            /\ reads' = {}
            /\ UNCHANGED <<lines, i, entries, triggers, visited, callVars, limiterVars, cacheVars>>

Next == LoopOld \/ LoopComment \/ LoopOther \/ LoopExit

Spec == Init /\ [][Next]_vars

FairFiles == UNION {[1..n -> LineSet] : n \in 0..MaxFairLines}

\* the whole call, from before the file is read (line 84)
InitRead == /\ lines = <<>>
            /\ i = 0
            /\ entries = <<>>
            /\ items = <<>>
            /\ pc = "read"
            /\ triggers = <<>>
            /\ visited = {}
            /\ reads = {}
            /\ line = <<>>
            /\ start = 0
            /\ result = None
            /\ LimiterUnused
            /\ CacheUnused

Read == /\ pc = "read"
        /\ lines' \in FairFiles
        /\ pc' = "loop"
        /\ UNCHANGED <<i, entries, items, triggers, visited, reads, callVars, limiterVars, cacheVars>>

NextRead == Read \/ LoopOld \/ LoopComment \/ LoopOther \/ LoopExit

\* the call runs to its end: nothing suspends it (single thread, no I/O)
FairSpec == InitRead /\ [][NextRead]_vars /\ WF_vars(NextRead)

\* ------------------------------------- the extractor applied to one line
InitExtract == /\ lines = <<>>
               /\ i = 0
               /\ entries = <<>>
               /\ items = <<>>
               /\ pc = "extract"
               /\ triggers = <<>>
               /\ visited = {}
               /\ reads = {}
               /\ line \in Strings
               /\ start = 0
               /\ result = None
               /\ LimiterUnused
               /\ CacheUnused

Extract == /\ pc = "extract"
           /\ result' = _extract_quoted_robust(line)
           /\ pc' = "extracted"
           /\ UNCHANGED <<readerVars, line, start, limiterVars, cacheVars>>

NextExtract == Extract

SpecExtract == InitExtract /\ [][NextExtract]_vars

\* ------------------------------------- the lookahead applied to one file
InitLookahead == /\ lines \in LookFiles
                 /\ start \in 0..MaxLines
                 /\ start <= Len(lines)
                 /\ i = 0
                 /\ entries = <<>>
                 /\ items = <<>>
                 /\ pc = "lookahead"
                 /\ triggers = <<>>
                 /\ visited = {}
                 /\ reads = {}
                 /\ line = <<>>
                 /\ result = None
                 /\ LimiterUnused
                 /\ CacheUnused

Lookahead == /\ pc = "lookahead"
             /\ result' = _find_next_relevant_line(lines, start)
             /\ pc' = "looked"
             /\ UNCHANGED <<readerVars, line, start, limiterVars, cacheVars>>

NextLookahead == Lookahead

SpecLookahead == InitLookahead /\ [][NextLookahead]_vars

\* ============================================================ the limiter
\* the reader is not in use
ReaderUnused == /\ lines = <<>>
                /\ i = 0
                /\ entries = <<>>
                /\ items = <<>>
                /\ triggers = <<>>
                /\ visited = {}
                /\ reads = {}
                /\ line = <<>>
                /\ start = 0
                /\ result = None

\* the threads that call the limiter
Threads == 1..NumThreads

\* the RPM values given to set_limit: 60 / RPM is a whole number of seconds
RPMs == {r \in 1..SecondsPerMinute : SecondsPerMinute % r = 0 /\ SecondsPerMinute \div r <= MaxInterval}

\* the TPM values given to set_limit: one token a second
TPMs == {SecondsPerMinute}

\* time.time() when the limiter is constructed: later than any interval after 0
StartTime == MaxInterval

min(a, b) == IF a <= b THEN a ELSE b

\* a thread that is in no call
NoCall == [pc |-> "idle", op |-> "none", tokens |-> 0, current_time |-> 0, time_since_last_request |-> 0, now |-> 0, tokens_to_add |-> 0, loaded |-> 0, ret |-> FALSE, wrote_time |-> FALSE, deducted |-> FALSE]

\* Request_Limiter(configurator)
InitLimiter == /\ ReaderUnused
               /\ CacheUnused
               /\ pc = "configure"
               /\ clock = StartTime
               /\ limiter = [max_tokens |-> 0, remaining_tokens |-> 0, tokens_rate |-> 0, last_time |-> StartTime, last_request_time |-> 0, request_interval |-> 0]
               /\ lock = 0
               /\ calls = [t \in Threads |-> NoCall]
               /\ granted = <<>>

\* set_limit(max_tokens, TPM, RPM)
SetLimit == /\ pc = "configure"
            /\ \E max_tokens \in {MaxTokens} : \E TPM \in TPMs : \E RPM \in RPMs :
                  limiter' = [limiter EXCEPT !.max_tokens = max_tokens,
                                             !.remaining_tokens = max_tokens,
                                             !.tokens_rate = TPM \div SecondsPerMinute,
                                             !.request_interval = SecondsPerMinute \div RPM]
            /\ pc' = "serve"
            /\ UNCHANGED <<readerVars, callVars, cacheVars, lock, clock, calls, granted>>

\* time passes
Tick == /\ pc = "serve"
        /\ clock < StartTime + MaxTicks
        /\ clock' = clock + 1
        /\ UNCHANGED <<readerVars, pc, callVars, cacheVars, limiter, lock, calls, granted>>

\* a thread calls RPM_limit()
CallRPM == \E t \in Threads :
              /\ pc = "serve"
              /\ calls[t].pc \in {"idle", "returned"}
              /\ calls' = [calls EXCEPT ![t] = [NoCall EXCEPT !.pc = "acquire", !.op = "RPM_limit"]]
              /\ UNCHANGED <<readerVars, pc, callVars, cacheVars, limiter, lock, clock, granted>>

\* a thread calls RPM_and_TPM_limit(tokens)
CallBoth == \E t \in Threads : \E tokens \in 0..MaxTokens :
               /\ pc = "serve"
               /\ calls[t].pc \in {"idle", "returned"}
               /\ calls' = [calls EXCEPT ![t] = [NoCall EXCEPT !.pc = "acquire", !.op = "RPM_and_TPM_limit", !.tokens = tokens]]
               /\ UNCHANGED <<readerVars, pc, callVars, cacheVars, limiter, lock, clock, granted>>

\* variant: the body of RPM_limit is entered without holding the lock
RPMEnterUnlocked == \E t \in Threads :
                       /\ calls[t].pc = "acquire"
                       /\ lock' = t
                       /\ calls' = [calls EXCEPT ![t].pc = "time"]
                       /\ UNCHANGED <<readerVars, pc, callVars, cacheVars, limiter, clock, granted>>

\* with self.lock:
RPMAcquire == \E t \in Threads :
                 /\ calls[t].pc = "acquire"
                 /\ lock = 0
                 /\ lock' = t
                 /\ calls' = [calls EXCEPT ![t].pc = "time"]
                 /\ UNCHANGED <<readerVars, pc, callVars, cacheVars, limiter, clock, granted>>

\* current_time = time.time()
RPMTime == \E t \in Threads :
              /\ calls[t].pc = "time"
              /\ calls' = [calls EXCEPT ![t].pc = "since", ![t].current_time = clock]
              /\ UNCHANGED <<readerVars, pc, callVars, cacheVars, limiter, lock, clock, granted>>

\* time_since_last_request = current_time - self.last_request_time
RPMSince == \E t \in Threads :
               /\ calls[t].pc = "since"
               /\ calls' = [calls EXCEPT ![t].pc = "decide", ![t].time_since_last_request = calls[t].current_time - limiter.last_request_time]
               /\ UNCHANGED <<readerVars, pc, callVars, cacheVars, limiter, lock, clock, granted>>

\* the comparison with request_interval, the return and the release of the
\* lock; in RPM_and_TPM_limit a True result goes on to TPM_limit
RPMDecide == \E t \in Threads :
                /\ calls[t].pc = "decide"
                /\ IF calls[t].time_since_last_request < limiter.request_interval
                   THEN /\ calls' = [calls EXCEPT ![t].pc = "returned", ![t].ret = FALSE, ![t].current_time = 0, ![t].time_since_last_request = 0]
                        /\ UNCHANGED <<limiter, granted>>
                   ELSE /\ limiter' = [limiter EXCEPT !.last_request_time = calls[t].current_time]
                        /\ granted' = Append(granted, calls[t].current_time)
                        /\ calls' = [calls EXCEPT ![t].pc = IF calls[t].op = "RPM_limit" THEN "returned" ELSE "now",
                                                  ![t].ret = (calls[t].op = "RPM_limit"),
                                                  ![t].wrote_time = TRUE,
                                                  ![t].current_time = 0,
                                                  ![t].time_since_last_request = 0]
                /\ lock' = 0
                /\ UNCHANGED <<readerVars, pc, callVars, cacheVars, clock>>

\* now = time.time()
TPMNow == \E t \in Threads :
             /\ calls[t].pc = "now"
             /\ calls' = [calls EXCEPT ![t].pc = "add", ![t].now = clock]
             /\ UNCHANGED <<readerVars, pc, callVars, cacheVars, limiter, lock, clock, granted>>

\* tokens_to_add = (now - self.last_time) * self.tokens_rate
TPMAdd == \E t \in Threads :
             /\ calls[t].pc = "add"
             /\ calls' = [calls EXCEPT ![t].pc = "load", ![t].tokens_to_add = (calls[t].now - limiter.last_time) * limiter.tokens_rate]
             /\ UNCHANGED <<readerVars, pc, callVars, cacheVars, limiter, lock, clock, granted>>

\* min(self.max_tokens, self.remaining_tokens + tokens_to_add) is computed
TPMLoad == \E t \in Threads :
              /\ calls[t].pc = "load"
              /\ calls' = [calls EXCEPT ![t].pc = "store", ![t].loaded = min(limiter.max_tokens, limiter.remaining_tokens + calls[t].tokens_to_add), ![t].tokens_to_add = 0]
              /\ UNCHANGED <<readerVars, pc, callVars, cacheVars, limiter, lock, clock, granted>>

\* self.remaining_tokens = <the value computed>
TPMStore == \E t \in Threads :
               /\ calls[t].pc = "store"
               /\ limiter' = [limiter EXCEPT !.remaining_tokens = calls[t].loaded]
               /\ calls' = [calls EXCEPT ![t].pc = "last", ![t].loaded = 0]
               /\ UNCHANGED <<readerVars, pc, callVars, cacheVars, lock, clock, granted>>

\* self.last_time = now
TPMLast == \E t \in Threads :
              /\ calls[t].pc = "last"
              /\ limiter' = [limiter EXCEPT !.last_time = calls[t].now]
              /\ calls' = [calls EXCEPT ![t].pc = "compare", ![t].now = 0]
              /\ UNCHANGED <<readerVars, pc, callVars, cacheVars, lock, clock, granted>>

\* if tokens > self.remaining_tokens: return False (and so does the caller)
TPMCompare == \E t \in Threads :
                 /\ calls[t].pc = "compare"
                 /\ IF calls[t].tokens > limiter.remaining_tokens
                    THEN calls' = [calls EXCEPT ![t].pc = "returned", ![t].ret = FALSE]
                    ELSE calls' = [calls EXCEPT ![t].pc = "deduct"]
                 /\ UNCHANGED <<readerVars, pc, callVars, cacheVars, limiter, lock, clock, granted>>

\* self.remaining_tokens - tokens is computed
DeductLoad == \E t \in Threads :
                 /\ calls[t].pc = "deduct"
                 /\ calls' = [calls EXCEPT ![t].pc = "deducted", ![t].loaded = limiter.remaining_tokens - calls[t].tokens]
                 /\ UNCHANGED <<readerVars, pc, callVars, cacheVars, limiter, lock, clock, granted>>

\* self.remaining_tokens = <the value computed>; return True
DeductStore == \E t \in Threads :
                  /\ calls[t].pc = "deducted"
                  /\ limiter' = [limiter EXCEPT !.remaining_tokens = calls[t].loaded]
                  /\ calls' = [calls EXCEPT ![t].pc = "returned", ![t].ret = TRUE, ![t].deducted = TRUE, ![t].loaded = 0]
                  /\ UNCHANGED <<readerVars, pc, callVars, cacheVars, lock, clock, granted>>

\* threads that call RPM_limit only
NextRPM == SetLimit \/ Tick \/ CallRPM \/ RPMAcquire \/ RPMTime \/ RPMSince \/ RPMDecide

SpecRPM == InitLimiter /\ [][NextRPM]_vars

\* threads that call RPM_and_TPM_limit
NextLimiter == SetLimit \/ Tick \/ CallBoth \/ RPMAcquire \/ RPMTime \/ RPMSince \/ RPMDecide \/ TPMNow \/ TPMAdd \/ TPMLoad \/ TPMStore \/ TPMLast \/ TPMCompare \/ DeductLoad \/ DeductStore

SpecLimiter == InitLimiter /\ [][NextLimiter]_vars

\* ========================================================= the cache items
\* the items constructed
Items == 1..NumItems

\* the threads that use the items
Workers == 1..NumWorkers

\* the values a field takes; 0 stands for the default (0 or "")
Values == 0..MaxValue

\* the fields that have a get_ and a set_ accessor
FieldNames == {"row_index", "text_index", "translation_status", "model", "source_text", "translated_text", "file_name", "storage_path"}

\* the fields of an item constructed with no arguments
DefaultFields == [f \in FieldNames |-> 0]

\* a thread that is in no method of an item
NoWork == [pc |-> "idle", item |-> 0, op |-> "none", field |-> "none", value |-> 0]

\* CacheItem({}): one item, shared by the threads
InitCacheItem == /\ ReaderUnused
                 /\ LimiterUnused
                 /\ pc = "items"
                 /\ fields = <<DefaultFields>>
                 /\ locks = <<0>>
                 /\ committed = <<DefaultFields>>
                 /\ workers = [w \in Workers |-> NoWork]
                 /\ token_cache = {}

\* CacheItem({"source_text": ...}) for each item
InitTokenCache == /\ ReaderUnused
                  /\ LimiterUnused
                  /\ pc = "items"
                  /\ \E texts \in [Items -> Values] : fields = [k \in Items |-> [DefaultFields EXCEPT !.source_text = texts[k]]]
                  /\ locks = [k \in Items |-> 0]
                  /\ committed = fields
                  /\ workers = [w \in Workers |-> NoWork]
                  /\ token_cache = {}

\* variant: get_<field> enters its body without holding the item's lock
GetEnterUnlocked == \E w \in Workers : \E k \in DOMAIN fields : \E f \in FieldNames :
                       /\ workers[w].pc = "idle"
                       /\ locks' = [locks EXCEPT ![k] = w]
                       /\ workers' = [workers EXCEPT ![w] = [pc |-> "get", item |-> k, op |-> "get", field |-> f, value |-> 0]]
                       /\ UNCHANGED <<readerVars, pc, callVars, limiterVars, fields, committed, token_cache>>

\* get_<field>(): with self.lock
GetAcquire == \E w \in Workers : \E k \in DOMAIN fields : \E f \in FieldNames :
                 /\ workers[w].pc = "idle"
                 /\ locks[k] = 0
                 /\ locks' = [locks EXCEPT ![k] = w]
                 /\ workers' = [workers EXCEPT ![w] = [pc |-> "get", item |-> k, op |-> "get", field |-> f, value |-> 0]]
                 /\ UNCHANGED <<readerVars, pc, callVars, limiterVars, fields, committed, token_cache>>

\* set_<field>(value): with self.lock
SetAcquire == \E w \in Workers : \E k \in DOMAIN fields : \E f \in FieldNames : \E v \in Values :
                 /\ workers[w].pc = "idle"
                 /\ locks[k] = 0
                 /\ locks' = [locks EXCEPT ![k] = w]
                 /\ workers' = [workers EXCEPT ![w] = [pc |-> "set", item |-> k, op |-> "set", field |-> f, value |-> v]]
                 /\ UNCHANGED <<readerVars, pc, callVars, limiterVars, fields, committed, token_cache>>

\* return self.<field>: the field is read
GetBody == \E w \in Workers :
              /\ workers[w].pc = "get"
              /\ workers' = [workers EXCEPT ![w].pc = "return", ![w].value = fields[workers[w].item][workers[w].field]]
              /\ UNCHANGED <<readerVars, pc, callVars, limiterVars, fields, locks, committed, token_cache>>

\* self.<field> = value
SetBody == \E w \in Workers :
              /\ workers[w].pc = "set"
              /\ fields' = [fields EXCEPT ![workers[w].item][workers[w].field] = workers[w].value]
              /\ workers' = [workers EXCEPT ![w].pc = "return"]
              /\ UNCHANGED <<readerVars, pc, callVars, limiterVars, locks, committed, token_cache>>

\* the accessor returns and the with block releases the lock
Release == \E w \in Workers :
              /\ workers[w].pc = "return"
              /\ locks' = [locks EXCEPT ![workers[w].item] = 0]
              /\ committed' = IF workers[w].op = "set"
                              THEN [committed EXCEPT ![workers[w].item][workers[w].field] = workers[w].value]
                              ELSE committed
              /\ workers' = [workers EXCEPT ![w] = NoWork]
              /\ UNCHANGED <<readerVars, pc, callVars, limiterVars, fields, token_cache>>

\* get_token_count(): with self.lock
CountAcquire == \E w \in Workers : \E k \in DOMAIN fields :
                   /\ workers[w].pc = "idle"
                   /\ locks[k] = 0
                   /\ locks' = [locks EXCEPT ![k] = w]
                   /\ workers' = [workers EXCEPT ![w] = [pc |-> "check", item |-> k, op |-> "count", field |-> "source_text", value |-> 0]]
                   /\ UNCHANGED <<readerVars, pc, callVars, limiterVars, fields, committed, token_cache>>

\* if not self.source_text in __class__.token_cache
CountCheck == \E w \in Workers :
                 /\ workers[w].pc = "check"
                 /\ workers' = [workers EXCEPT ![w].pc = IF fields[workers[w].item].source_text \in token_cache THEN "lookup" ELSE "insert"]
                 /\ UNCHANGED <<readerVars, pc, callVars, limiterVars, fields, locks, committed, token_cache>>

\* __class__.token_cache[self.source_text] = len(...); the keys are kept
CountInsert == \E w \in Workers :
                  /\ workers[w].pc = "insert"
                  /\ token_cache' = token_cache \cup {fields[workers[w].item].source_text}
                  /\ workers' = [workers EXCEPT ![w].pc = "lookup"]
                  /\ UNCHANGED <<readerVars, pc, callVars, limiterVars, fields, locks, committed>>

\* return __class__.token_cache[self.source_text] and the release of the lock
CountReturn == \E w \in Workers :
                  /\ workers[w].pc = "lookup"
                  /\ fields[workers[w].item].source_text \in token_cache
                  /\ locks' = [locks EXCEPT ![workers[w].item] = 0]
                  /\ workers' = [workers EXCEPT ![w] = NoWork]
                  /\ UNCHANGED <<readerVars, pc, callVars, limiterVars, fields, committed, token_cache>>

\* threads in the accessors of one item
NextCacheItem == GetAcquire \/ SetAcquire \/ GetBody \/ SetBody \/ Release

SpecCacheItem == InitCacheItem /\ [][NextCacheItem]_vars

\* threads in get_token_count of the items
NextTokenCache == CountAcquire \/ CountCheck \/ CountInsert \/ CountReturn

SpecTokenCache == InitTokenCache /\ [][NextTokenCache]_vars

\* ================================================================ claims
\* the raw line with line number k
LineAt(k) == lines[k + 1]

HasSpan(s) == _extract_quoted_robust(s).some

SpanOf(s) == _extract_quoted_robust(s).val

Entries == 1..Len(entries)

LineNums == 0..(Len(lines) - 1)

\* the comment's content after the leading '#', left-trimmed
ContentOf(s) == lstrip(afterHash(s))

\* C1: every emitted entry's target line lies strictly after the line that
\* triggered it, and no line starting with 'translate ' lies between the two.
C1_TargetWithinBlock == \A k \in Entries : /\ entries[k].new_line_num > triggers[k]
                                           /\ \A m \in (triggers[k] + 1)..(entries[k].new_line_num - 1) : ~isBlockBoundary(LineAt(m))

\* a directive line of the form  voice "<file>"
isVoiceLine(s) == startswith(strip(s), <<"v", "o", "i", "c", "e", " ">>) /\ HasSpan(s)

\* lines p..q are: # <tag> "<text>", one or more voice lines, <tag> "<text>"
C2_Case(p, q) == /\ p + 1 < q
                 /\ isCommentLine(LineAt(p)) /\ HasSpan(LineAt(p))
                 /\ TAG_PATTERN(afterHash(LineAt(p))).some
                 /\ \A v \in (p + 1)..(q - 1) : isVoiceLine(LineAt(v))
                 /\ ~isOldLine(LineAt(q)) /\ HasSpan(LineAt(q))
                 /\ TAG_PATTERN(strip(LineAt(q))).some
                 /\ strip(TAG_PATTERN(strip(LineAt(q))).val) = strip(TAG_PATTERN(afterHash(LineAt(p))).val)

\* C2: a tagged comment, then voice lines, then the code line with the same
\* tag yields exactly one comment_tag entry with that tag whose target is the
\* code line, and no voice line is the target or the trigger of an entry.
C2_VoiceSkipped == pc = "done" => \A p, q \in LineNums : C2_Case(p, q) =>
                       /\ Cardinality({k \in Entries : entries[k].new_line_num = q}) = 1
                       /\ \A k \in Entries : entries[k].new_line_num = q =>
                              /\ triggers[k] = p
                              /\ entries[k].format_type = "comment_tag"
                              /\ entries[k].tag = Some(strip(TAG_PATTERN(strip(LineAt(q))).val))
                       /\ \A k \in Entries : \A v \in (p + 1)..(q - 1) : entries[k].new_line_num # v /\ triggers[k] # v

\* line p is an 'old' line with a span, line q a 'new' line with a span, and
\* no line between them is old-prefixed, comment-shaped or a code candidate
C3_Case(p, q) == /\ p < q
                 /\ isOldLine(LineAt(p)) /\ HasSpan(LineAt(p))
                 /\ isNewLine(LineAt(q)) /\ HasSpan(LineAt(q))
                 /\ \A m \in (p + 1)..(q - 1) : ~isOldLine(LineAt(m)) /\ ~isCommentLine(LineAt(m)) /\ ~isCodeCandidate(LineAt(m))

\* C3: such an old/new pair yields exactly one entry, with the old line's span
\* as source, the new line's span as translation, format old_new, no tag and
\* the new line as target.
C3_OldNewPair == pc = "done" => \A p, q \in LineNums : C3_Case(p, q) =>
                     /\ Cardinality({k \in Entries : triggers[k] = p \/ entries[k].new_line_num = q}) = 1
                     /\ \A k \in Entries : (triggers[k] = p \/ entries[k].new_line_num = q) =>
                            /\ triggers[k] = p
                            /\ entries[k] = [source |-> SpanOf(LineAt(p)), translated |-> SpanOf(LineAt(q)), new_line_num |-> q, format_type |-> "old_new", tag |-> None]

\* line p is a comment whose content starts with a quote, line p + 1 a code
\* line that starts with a quote, and both have a span
C4_Case(p) == /\ p + 1 \in LineNums
              /\ isCommentLine(LineAt(p)) /\ HasSpan(LineAt(p))
              /\ startswith(ContentOf(LineAt(p)), <<Quote>>)
              /\ startswith(strip(LineAt(p + 1)), <<Quote>>) /\ HasSpan(LineAt(p + 1))

\* C4: a plain comment directly followed by a plain code line yields exactly
\* one entry: comment_no_tag, no tag, source the comment's span, translation
\* the code line's span, target the code line.
C4_CommentPlain == pc = "done" => \A p \in LineNums : C4_Case(p) =>
                       /\ Cardinality({k \in Entries : entries[k].new_line_num = p + 1}) = 1
                       /\ \A k \in Entries : entries[k].new_line_num = p + 1 =>
                              entries[k] = [source |-> SpanOf(LineAt(p)), translated |-> SpanOf(LineAt(p + 1)), new_line_num |-> p + 1, format_type |-> "comment_no_tag", tag |-> None]

\* the outer loop ran on the 'old' line p, which has a span, and its forward
\* scan stopped without a match at line q, another 'old' line
C5_Case(p, q) == /\ p \in visited
                 /\ isOldLine(LineAt(p)) /\ HasSpan(LineAt(p))
                 /\ ~ScanNew(lines, p + 1).found_new
                 /\ ScanNew(lines, p + 1).j = q
                 /\ isOldLine(LineAt(q))

\* C5: an 'old' line whose scan meets another 'old' line before any 'new'
\* line yields no entry, and the second 'old' line is still processed by the
\* outer loop as a trigger of its own.
C5_SecondOldProcessed == pc = "done" => \A p, q \in LineNums : C5_Case(p, q) =>
                             /\ \A k \in Entries : triggers[k] # p
                             /\ q \in visited

\* a comment line whose content starts with game/ or renpy/
isPathComment(s) == isCommentLine(s) /\ (startswith(ContentOf(s), GamePrefix) \/ startswith(ContentOf(s), RenpyPrefix))

\* C6: a comment whose content starts with game/ or renpy/ never triggers an
\* entry, and the step taken on it advances the cursor by exactly one line.
C6_PathCommentInert == /\ [](\A k \in Entries : ~isPathComment(LineAt(triggers[k])))
                       /\ [][(pc = "loop" /\ i < Len(lines) /\ isPathComment(LineAt(i))) => (i' = i + 1 /\ entries' = entries)]_vars

C6_Witness == /\ i > 0
              /\ (i - 1) \in visited
              /\ isPathComment(LineAt(i - 1))
              /\ HasSpan(LineAt(i - 1))
              /\ _find_next_relevant_line(lines, i).some

QuotePositions(s) == {k \in 1..Len(s) : s[k] = Quote}

FirstQuote(s) == CHOOSE k \in QuotePositions(s) : \A m \in QuotePositions(s) : k <= m

LastQuote(s) == CHOOSE k \in QuotePositions(s) : \A m \in QuotePositions(s) : k >= m

\* C7: the extractor returns the characters strictly between the first and
\* the last double quote of the line when the line has at least two double
\* quotes, and nothing when it has none or one.
C7_ExtractFirstToLast == pc = "extracted" =>
                             IF Cardinality(QuotePositions(line)) >= 2
                             THEN result = Some([k \in 1..(LastQuote(line) - FirstQuote(line) - 1) |-> line[FirstQuote(line) + k]])
                             ELSE result = None

C7_Witness == pc = "extracted" /\ Cardinality(QuotePositions(line)) >= 3 /\ result.some /\ Quote \in {result.val[k] : k \in 1..Len(result.val)}

\* C8: the line at an entry's target is never a comment line and never an
\* 'old' line.
C8_TargetIsCodeLine == \A k \in Entries : ~isCommentLine(LineAt(entries[k].new_line_num)) /\ ~isOldLine(LineAt(entries[k].new_line_num))

\* C9: an entry has a tag exactly when its format is comment_tag, and then
\* the tag of the comment's content and the tag of the code line are equal
\* after trimming and are the entry's tag.
C9_TagIffCommentTagged == \A k \in Entries :
                              /\ entries[k].tag.some <=> entries[k].format_type = "comment_tag"
                              /\ entries[k].format_type = "comment_tag" =>
                                     LET comment_tag == TAG_PATTERN(afterHash(LineAt(triggers[k])))
                                         code_tag == TAG_PATTERN(strip(LineAt(entries[k].new_line_num)))
                                     IN /\ comment_tag.some /\ code_tag.some
                                        /\ strip(comment_tag.val) = strip(code_tag.val)
                                        /\ entries[k].tag = Some(strip(comment_tag.val))

C9_Witness == \E k \in Entries : entries[k].format_type = "comment_tag" /\ entries[k].tag.some

\* C10: the target line numbers of the entries emitted so far are strictly
\* increasing in emission order.
C10_TargetsIncreasing == \A k \in Entries : \A m \in Entries : k < m => entries[k].new_line_num < entries[m].new_line_num

C10_Witness == Len(entries) >= 2 /\ pc = "loop"

\* C11: on every file the loop reaches its end: each iteration strictly
\* increases the cursor, the loop is left only once the cursor has reached
\* the number of lines, and no step reads a line number outside the file.
C11_LoopTerminates == /\ <>(pc = "done")
                      /\ [][(pc = "loop" /\ i < Len(lines)) => (i' > i /\ pc' = "loop")]_vars
                      /\ [][(pc = "loop" /\ pc' = "done") => i >= Len(lines)]_vars
                      /\ [](reads \subseteq LineNums)

C11_Witness == /\ pc = "done"
               /\ Len(lines) >= 2
               /\ entries = <<>>
               /\ \E k \in LineNums : isOldLine(LineAt(k)) /\ ~HasSpan(LineAt(k))
               /\ \E k \in LineNums : isCommentLine(LineAt(k)) /\ HasSpan(LineAt(k)) /\ k \in visited

\* the line numbers from start on whose line is a code candidate
CodeCandidatesFrom == {k \in LineNums : k >= start /\ isCodeCandidate(LineAt(k))}

\* C16: the lookahead returns the first code candidate at or after the start
\* index when no line from the start index up to it (itself included) starts
\* with 'translate '; otherwise, and at the end of the file, it returns
\* nothing.
C16_LookaheadFirstCandidate == pc = "looked" =>
                                   IF \E k \in CodeCandidatesFrom : \A m \in start..k : ~isBlockBoundary(LineAt(m)) /\ (m < k => ~isCodeCandidate(LineAt(m)))
                                   THEN \E k \in CodeCandidatesFrom : /\ \A m \in CodeCandidatesFrom : k <= m
                                                                       /\ result = Some([num |-> k, line |-> LineAt(k)])
                                   ELSE result = None

C16_Witness == /\ pc = "looked"
               /\ result.some
               /\ result.val.num > start
               /\ \E k \in LineNums : k > result.val.num /\ isBlockBoundary(LineAt(k))

\* the cursor is at an 'old' line that has a span
C17_Case == pc = "loop" /\ i < Len(lines) /\ isOldLine(LineAt(i)) /\ HasSpan(LineAt(i))

\* C17: after the inner scan of an 'old' line with a span the cursor is one
\* past the last line the scan examined: one past the 'new' line on a match,
\* one past the line that stopped the scan, or the end of the file.
C17_CursorPastScan == [][C17_Case => i' = (IF ScanNew(lines, i + 1).j >= Len(lines) THEN Len(lines) ELSE ScanNew(lines, i + 1).j + 1)]_vars

\* the comment at line number k has a span, the lookahead finds a code line
\* with a span, and the two tags differ or only one of the lines has a tag
C18_Case(k) == /\ isCommentLine(LineAt(k)) /\ HasSpan(LineAt(k))
               /\ _find_next_relevant_line(lines, k + 1).some
               /\ HasSpan(_find_next_relevant_line(lines, k + 1).val.line)
               /\ LET comment_tag == TAG_PATTERN(afterHash(LineAt(k)))
                      code_tag == TAG_PATTERN(strip(_find_next_relevant_line(lines, k + 1).val.line))
                  IN \/ comment_tag.some /\ code_tag.some /\ strip(comment_tag.val) # strip(code_tag.val)
                     \/ comment_tag.some /\ ~code_tag.some
                     \/ ~comment_tag.some /\ code_tag.some

\* C18: a comment whose code line carries a different tag, or where only one
\* of the two lines carries a tag, emits no entry and moves the cursor on by
\* exactly one line.
C18_MismatchNoEntry == [][(pc = "loop" /\ i < Len(lines) /\ C18_Case(i)) => (entries' = entries /\ i' = i + 1)]_vars

C18_Witness == /\ i > 0
               /\ (i - 1) \in visited
               /\ C18_Case(i - 1)
               /\ TAG_PATTERN(afterHash(LineAt(i - 1))).some
               /\ i < Len(lines)

\* C19: the cursor never decreases; when an entry is emitted the cursor is
\* one past its target; and no later step reads a line at or before the
\* target of an entry already emitted.
C19_NoRevisit == [][/\ i' >= i
                    /\ Len(entries') > Len(entries) => i' = entries'[Len(entries')].new_line_num + 1
                    /\ \A k \in Entries : \A r \in reads' : r > entries[k].new_line_num]_vars

\* C12: any two calls of RPM_limit that returned True recorded timestamps at
\* least request_interval apart.
C12_GrantsSpaced == \A a \in 1..Len(granted) : \A b \in 1..Len(granted) : a < b => granted[b] - granted[a] >= limiter.request_interval

C12_Witness == /\ Len(granted) >= 2 /\ lock = 0
               /\ \E t \in Threads : calls[t].pc = "returned" /\ ~calls[t].ret

\* C13: after set_limit the tokens remaining are never below zero and never
\* above max_tokens.
C13_BucketWithinCapacity == pc = "serve" => (limiter.remaining_tokens >= 0 /\ limiter.remaining_tokens <= limiter.max_tokens)

Inside(k) == {w \in Workers : workers[w].pc # "idle" /\ workers[w].item = k}

\* C14: at most one thread is inside an accessor of the item, the item's lock
\* is free when no thread is inside, and a get is about to return the value
\* of the most recent completed set of its field (or the initial value).
C14_AccessorsExclusive == \A k \in DOMAIN fields :
                             /\ Cardinality(Inside(k)) <= 1
                             /\ Inside(k) = {} => locks[k] = 0
                             /\ \A w \in Inside(k) : (workers[w].op = "get" /\ workers[w].pc = "return") => workers[w].value = committed[k][workers[w].field]

C14_Witness == \E w \in Workers : /\ workers[w].op = "get"
                                   /\ workers[w].pc = "return"
                                   /\ workers[w].value # 0
                                   /\ \E f \in FieldNames : f # workers[w].field /\ committed[workers[w].item][f] # 0

\* C15: at most one thread at a time is inside the check-then-insert section
\* of get_token_count.
C15_TokenCacheExclusive == Cardinality({w \in Workers : workers[w].pc \in {"check", "insert"}}) <= 1

====
